---------------------------- MODULE Spec2Model ----------------------------
(***************************************************************************)
(* A model of reddit_post_guess.py: the pipeline of main (fetch, extract   *)
(* and clean, safety check, score check, persist, assemble, save) and the  *)
(* pure transforms it is built from.                                       *)
(*                                                                         *)
(* Python text is a sequence of one-character strings (ASCII only).  A     *)
(* JSON value is a tagged record: StrV, IntV or NullV.  A post is a        *)
(* function from the keys that are present to their values.                *)
(***************************************************************************)
EXTENDS Integers, Sequences, FiniteSets, TLC

VARIABLES
    pc,        \* position of the run: of main, or of a direct library call
    response,  \* what the generator returned to get_interesting_reddit_post
    post,      \* the local cleaned / post of the run
    store,     \* lines of reddit_posts.jsonl
    store0,    \* the lines the file held before the run
    puzzle,    \* the puzzle payload built by format_puzzle_for_api
    saved,     \* content of puzzle.json
    err,       \* the exception that ended the run, if any
    fn,        \* name of the function a function-level specification applies
    arg,       \* its arguments
    ret        \* its outcome: Pending, Returned(v) or Raised(e)

vars == <<pc, response, post, store, store0, puzzle, saved, err, fn, arg, ret>>

pipelineVars == <<pc, response, post, store, store0, puzzle, saved, err>>

callVars == <<fn, arg, ret>>

(***************************************************************************)
(* Values and outcomes                                                     *)
(***************************************************************************)
StrV(s) == [t |-> "str", v |-> s]

IntV(n) == [t |-> "int", v |-> n]

NullV == [t |-> "null", v |-> 0]

\* dict.get(key, default)
Get(p, key, default) == IF key \in DOMAIN p THEN p[key] ELSE default

\* Python truth value of a JSON value
Truthy(x) ==
    CASE x.t = "str" -> Len(x.v) > 0
      [] x.t = "int" -> x.v # 0
      [] OTHER -> FALSE

Pending == [state |-> "pending", value |-> <<>>]

Returned(v) == [state |-> "returned", value |-> v]

Raised(e) == [state |-> "raised", value |-> e]

Min(a, b) == IF a < b THEN a ELSE b

\* abs()
Abs(x) == IF x < 0 THEN 0 - x ELSE x

(***************************************************************************)
(* Text primitives of Python's str                                         *)
(***************************************************************************)
UpperLetters ==
    <<"A", "B", "C", "D", "E", "F", "G", "H", "I", "J", "K", "L", "M",
      "N", "O", "P", "Q", "R", "S", "T", "U", "V", "W", "X", "Y", "Z">>

LowerLetters ==
    <<"a", "b", "c", "d", "e", "f", "g", "h", "i", "j", "k", "l", "m",
      "n", "o", "p", "q", "r", "s", "t", "u", "v", "w", "x", "y", "z">>

LowerChar(c) ==
    IF \E i \in 1..Len(UpperLetters) : UpperLetters[i] = c
    THEN LowerLetters[CHOOSE i \in 1..Len(UpperLetters) : UpperLetters[i] = c]
    ELSE c

\* str.lower()
LowerStr(s) == [i \in 1..Len(s) |-> LowerChar(s[i])]

\* the characters str.strip() and str.rstrip() remove by default
Whitespace == {" ", "\t", "\n", "\r", "\f"}

\* text[:n], n >= 0
Prefix(s, n) == SubSeq(s, 1, Min(n, Len(s)))

\* str.rstrip(chars): the text up to its last character that is not in
\* chars
RStripSet(s, chars) ==
    LET solid == {i \in 1..Len(s) : s[i] \notin chars}
    IN  IF solid = {} THEN <<>>
        ELSE SubSeq(s, 1,
                    CHOOSE i \in solid :
                        \A k \in (i + 1)..Len(s) : s[k] \in chars)

\* str.lstrip(chars): the text from its first character that is not in
\* chars
LStripSet(s, chars) ==
    LET solid == {i \in 1..Len(s) : s[i] \notin chars}
    IN  IF solid = {} THEN <<>>
        ELSE SubSeq(s,
                    CHOOSE i \in solid :
                        \A k \in 1..(i - 1) : s[k] \in chars,
                    Len(s))

\* str.rstrip()
RStrip(s) == RStripSet(s, Whitespace)

\* str.strip()
Strip(s) == LStripSet(RStripSet(s, Whitespace), Whitespace)

\* whether tok occurs in s at 0-based index i
MatchAt(s, tok, i) ==
    /\ i + Len(tok) <= Len(s)
    /\ \A j \in 1..Len(tok) : s[i + j] = tok[j]

RECURSIVE FindFrom(_, _, _)
\* str.find(tok, i): the lowest 0-based index >= i where tok occurs, or -1
FindFrom(s, tok, i) ==
    IF i + Len(tok) > Len(s) THEN -1
    ELSE IF MatchAt(s, tok, i) THEN i
    ELSE FindFrom(s, tok, i + 1)

\* tok in s
Contains(s, tok) == FindFrom(s, tok, 0) # -1

\* str.rfind(ch): the highest 0-based index where the character ch occurs,
\* or -1
RFind(s, ch) ==
    LET hits == {i \in 0..(Len(s) - 1) : s[i + 1] = ch}
    IN  IF hits = {} THEN -1
        ELSE CHOOSE i \in hits : \A j \in hits : j <= i

Digits == <<"0", "1", "2", "3", "4", "5", "6", "7", "8", "9">>

RECURSIVE NatStr(_)
\* str(n), n >= 0
NatStr(n) ==
    IF n < 10 THEN <<Digits[n + 1]>>
    ELSE NatStr(n \div 10) \o <<Digits[(n % 10) + 1]>>

\* str(n)
IntStr(n) == IF n < 0 THEN <<"-">> \o NatStr(0 - n) ELSE NatStr(n)

\* str(value), as _ensure_sfw applies it to a title or a body
PyStr(x) ==
    CASE x.t = "str" -> x.v
      [] x.t = "int" -> IntStr(x.v)
      [] OTHER -> <<"N", "o", "n", "e">>

\* a text of n copies of the character ch
Rep(ch, n) == [i \in 1..n |-> ch]

(***************************************************************************)
(* Threshold Gate: _ensure_min_karma                                       *)
(***************************************************************************)
DEFAULT_MIN_KARMA == 1000

\* abs(score) < min_karma with the comparison turned around
BelowThresholdSigned(score, min_karma) == score < min_karma

BelowThreshold(score, min_karma) == Abs(score) < min_karma

\* ValueError(f"Post has {score} karma, need at least {min_karma}. ...")
KarmaError(score, min_karma) ==
    [kind |-> "BELOW_THRESHOLD", score |-> score, need |-> min_karma]

_ensure_min_karma(p, min_karma) ==
    LET score == Get(p, "score", IntV(0))
    IN  IF score.t # "int" THEN Raised([kind |-> "TypeError"])
        ELSE IF BelowThreshold(score.v, min_karma)
             THEN Raised(KarmaError(score.v, min_karma))
             ELSE Returned(NullV)

(***************************************************************************)
(* Content Safety Filter: _is_nsfw, _ensure_sfw                            *)
(***************************************************************************)
NSFW_TOKENS ==
    << <<"n", "s", "f", "w">>,
       <<"p", "o", "r", "n">>,
       <<"s", "e", "x", " ">>,
       <<"s", "e", "x", "u", "a", "l">>,
       <<"e", "x", "p", "l", "i", "c", "i", "t">>,
       <<"n", "u", "d", "e">>,
       <<"n", "u", "d", "i", "t", "y">>,
       <<"r", "a", "p", "e">>,
       <<"g", "o", "r", "e">>,
       <<"b", "l", "o", "o", "d">>,
       <<"v", "i", "o", "l", "e", "n", "c", "e">>,
       <<"f", "u", "c", "k">>,
       <<"d", "i", "c", "k">>,
       <<"p", "u", "s", "s", "y">> >>

\* _is_nsfw without the call of lower()
IsNsfwCaseSensitive(text) ==
    /\ Len(text) > 0
    /\ \E k \in 1..Len(NSFW_TOKENS) : Contains(text, NSFW_TOKENS[k])

_is_nsfw(text) ==
    /\ Len(text) > 0
    /\ LET lowered == LowerStr(text)
       IN  \E k \in 1..Len(NSFW_TOKENS) : Contains(lowered, NSFW_TOKENS[k])

_ensure_sfw(p) ==
    LET title == PyStr(Get(p, "title", StrV(<<>>)))
        body == PyStr(Get(p, "selftext", StrV(<<>>)))
    IN  IF _is_nsfw(title) \/ _is_nsfw(body)
        THEN Raised([kind |-> "UNSAFE_CONTENT"])
        ELSE Returned(NullV)

(***************************************************************************)
(* Persistence boundary: _clean_post                                       *)
(***************************************************************************)
REMOVE_KEYS == {"created_utc", "selection_reason", "full_prompt"}

\* _clean_post with one transient key forgotten
CleanPostLeaky(p) ==
    [k \in DOMAIN p \ {"created_utc", "selection_reason"} |-> p[k]]

_clean_post(p) == [k \in DOMAIN p \ REMOVE_KEYS |-> p[k]]

(***************************************************************************)
(* Clue Formatter: _format_subscribers                                     *)
(*                                                                         *)
(* f"{count / unit:.1f}" divides two ints into the nearest double and      *)
(* prints the decimal with one fractional digit that is nearest to that    *)
(* double (ties to even).  With unit 1000 or 1000000 and count below 2^31  *)
(* the double's error only matters when count / unit lies exactly halfway  *)
(* between two tenths, that is when count / unit = n / 20 with n odd; then *)
(* the digit follows the side on which the double fell.                    *)
(***************************************************************************)
RECURSIVE FloorLog2Ratio(_, _)
\* the largest e >= 0 with n >= d * 2^e, for n >= d > 0
FloorLog2Ratio(n, d) == IF n >= 2 * d THEN 1 + FloorLog2Ratio(n, 2 * d) ELSE 0

\* 2^s mod 20, for s >= 2
Pow2Mod20(s) ==
    CASE s % 4 = 2 -> 4
      [] s % 4 = 3 -> 8
      [] s % 4 = 0 -> 16
      [] OTHER -> 12

\* The tenths printed for n / 20, n = 2j + 1: the double nearest to n / 20
\* is round(n * 2^s / 20) / 2^s with s = 52 - floor(log2(n / 20)); the
\* remainder of n * 2^s by 20 tells on which side of n / 20 it fell.
HalfwayTenths(j) ==
    LET n == 2 * j + 1
        s == 52 - FloorLog2Ratio(n, 20)
        r == ((n % 20) * Pow2Mod20(s)) % 20
    IN  IF r = 0 THEN (IF j % 2 = 0 THEN j ELSE j + 1)
        ELSE IF r < 10 THEN j
        ELSE j + 1

\* the number of tenths f"{count / unit:.1f}" prints
Tenths(count, unit) ==
    IF (10 * count) % unit = unit \div 2
    THEN HalfwayTenths((10 * count) \div unit)
    ELSE (10 * count + unit \div 2) \div unit

\* f"{count / unit:.1f}"
OneDecimal(count, unit) ==
    LET t == Tenths(count, unit)
    IN  NatStr(t \div 10) \o <<".">> \o <<Digits[(t % 10) + 1]>>

\* value.rstrip("0.") in place of value.rstrip("0").rstrip(".")
TrimDecimalGreedy(value) == RStripSet(value, {"0", "."})

\* value.rstrip("0").rstrip(".")
TrimDecimal(value) == RStripSet(RStripSet(value, {"0"}), {"."})

_format_subscribers(count) ==
    IF count >= 1000000
    THEN TrimDecimal(OneDecimal(count, 1000000)) \o <<"M">>
    ELSE IF count >= 1000
         THEN TrimDecimal(OneDecimal(count, 1000)) \o <<"K">>
         ELSE IntStr(count)

(***************************************************************************)
(* Clue Formatter: format_clues_for_game                                   *)
(***************************************************************************)
INVALID_COMMENTS ==
    { <<"[", "r", "e", "m", "o", "v", "e", "d", "]">>,
      <<"[", "d", "e", "l", "e", "t", "e", "d", "]">>,
      <<>> }

\* len(top_comment) > 200
COMMENT_LIMIT == 200

\* top_comment[:197]
COMMENT_KEEP == 197

Ellipsis == <<".", ".", ".">>

NoValidComments ==
    <<"N", "o", " ", "v", "a", "l", "i", "d", " ",
      "c", "o", "m", "m", "e", "n", "t", "s">>

Unknown == <<"U", "n", "k", "n", "o", "w", "n">>

NoSpecificRules ==
    <<"N", "o", " ", "s", "p", "e", "c", "i", "f", "i", "c", " ",
      "r", "u", "l", "e", "s">>

\* the ratio clue.  The model carries the ratio as absent, null or a JSON
\* integer (0 or 1); a fractional ratio is outside the model.
UpvoteRatioClue(p) ==
    LET ratio == Get(p, "upvote_ratio", IntV(0))
    IN  IF Truthy(ratio)
        THEN IntStr(ratio.v * 100)
             \o <<"%", " ", "u", "p", "v", "o", "t", "e", "d">>
        ELSE Unknown

\* the cut of a long comment, one character late
ShortenCommentLate(c) ==
    IF Len(c) > COMMENT_LIMIT THEN Prefix(c, COMMENT_KEEP + 1) \o Ellipsis ELSE c

\* if len(top_comment) > 200: top_comment = top_comment[:197] + "..."
ShortenComment(c) ==
    IF Len(c) > COMMENT_LIMIT THEN Prefix(c, COMMENT_KEEP) \o Ellipsis ELSE c

\* the sentinel test without strip()
IsInvalidCommentUnstripped(c) ==
    LowerStr(c) \in {LowerStr(x) : x \in INVALID_COMMENTS}

\* top_comment.strip().lower() in {s.lower() for s in INVALID_COMMENTS}
IsInvalidComment(c) ==
    LowerStr(Strip(c)) \in {LowerStr(x) : x \in INVALID_COMMENTS}

\* the top-comment clue of a comment that is text
TopCommentClue(c) ==
    LET c1 == IF IsInvalidComment(c) THEN <<>> ELSE c
        c2 == ShortenComment(c1)
    IN  IF Len(c2) > 0 THEN <<"\"">> \o c2 \o <<"\"">> ELSE NoValidComments

\* the community-stats clue, for subscribers that are falsy or an integer
CommunityStatsClue(subscribers, year) ==
    IF Truthy(subscribers) /\ Truthy(year)
    THEN _format_subscribers(subscribers.v)
         \o <<" ", "m", "e", "m", "b", "e", "r", "s", ",", " ",
              "f", "o", "u", "n", "d", "e", "d", " ">>
         \o PyStr(year)
    ELSE IF Truthy(subscribers)
         THEN _format_subscribers(subscribers.v)
              \o <<" ", "m", "e", "m", "b", "e", "r", "s">>
         ELSE Unknown

\* None.strip() and 5.strip() raise AttributeError; _format_subscribers
\* compares a text count with an int and raises TypeError.
format_clues_for_game(p) ==
    LET top_comment == Get(p, "top_comment", StrV(<<>>))
        subscribers == Get(p, "subreddit_subscribers", IntV(0))
        year == Get(p, "subreddit_created_year", StrV(<<>>))
    IN  IF top_comment.t # "str" THEN Raised([kind |-> "AttributeError"])
        ELSE IF Truthy(subscribers) /\ subscribers.t # "int"
             THEN Raised([kind |-> "TypeError"])
             ELSE Returned(
                    [upvoteRatio |-> UpvoteRatioClue(p),
                     topComment |-> TopCommentClue(top_comment.v),
                     communityStats |-> CommunityStatsClue(subscribers, year),
                     sidebarRule |->
                        Get(p, "subreddit_rule", StrV(NoSpecificRules))])

(***************************************************************************)
(* Bounded Truncator: _truncate_body                                       *)
(***************************************************************************)
MAX_BODY_LENGTH == 500

RECURSIVE FloorLog2(_)
\* the largest e with 2^e <= k, for k >= 1
FloorLog2(k) == IF k >= 2 THEN 1 + FloorLog2(k \div 2) ELSE 0

\* Whether the double max_length * 0.7 is below 7 * max_length / 10 when
\* that is a whole number k.  The double 0.7 is 0.7 - 0.4 * 2^-53, so the
\* exact product is k - 0.4 * max_length * 2^-53; the doubles below k lie
\* 2^(e-52) apart for 2^e <= k, and the product rounds back to k only if
\* 0.4 * max_length <= 2^e.
ProductRoundsBelow(max_length) ==
    LET k == (7 * max_length) \div 10
    IN  /\ (7 * max_length) % 10 = 0
        /\ k >= 1
        /\ 4 * max_length > 10 * (2 ^ FloorLog2(k))

\* last_space > max_length * 0.7, the product being a double
PastSeventyPercent(last_space, max_length) ==
    IF ProductRoundsBelow(max_length)
    THEN 10 * last_space >= 7 * max_length
    ELSE 10 * last_space > 7 * max_length

\* _truncate_body on a text
TruncateText(text, max_length) ==
    IF Len(text) = 0 \/ Len(text) <= max_length THEN text
    ELSE LET truncated == Prefix(text, max_length)
             last_space == RFind(truncated, " ")
             cut == IF PastSeventyPercent(last_space, max_length)
                    THEN Prefix(truncated, last_space)
                    ELSE truncated
         IN  RStrip(cut) \o Ellipsis

\* _truncate_body on the value format_puzzle_for_api hands it: a falsy
\* value (None, "", 0) is returned as it is, len() of a number raises.
_truncate_body(x, max_length) ==
    IF ~Truthy(x) THEN Returned(x)
    ELSE IF x.t # "str" THEN Raised([kind |-> "TypeError"])
    ELSE Returned(StrV(TruncateText(x.v, max_length)))

(***************************************************************************)
(* Puzzle Assembler: format_puzzle_for_api                                 *)
(***************************************************************************)
\* datetime.now().strftime("%Y-%m-%d")
Today == StrV(<<"2", "0", "2", "6", "-", "0", "1", "-", "0", "1">>)

format_puzzle_for_api(p, date) ==
    LET clues == format_clues_for_game(p)
        post_body ==
            _truncate_body(
                Get(p, "redacted_selftext", Get(p, "selftext", StrV(<<>>))),
                MAX_BODY_LENGTH)
    IN  IF clues.state = "raised" THEN clues
        ELSE IF post_body.state = "raised" THEN post_body
        ELSE Returned(
               [postTitle |->
                    Get(p, "redacted_title", Get(p, "title", StrV(<<>>))),
                postBody |-> post_body.value,
                correctSubreddit |-> Get(p, "subreddit", StrV(<<>>)),
                clues |-> clues.value,
                date |-> IF Truthy(date) THEN date ELSE Today])

(***************************************************************************)
(* Building inputs                                                         *)
(***************************************************************************)
\* marks a key that the post does not carry
Absent == [t |-> "absent", v |-> 0]

\* the post that carries the keys of r whose value is not Absent
MkPost(r) == [k \in {j \in DOMAIN r : r[j].t # "absent"} |-> r[k]]

UpperChar(c) ==
    IF \E i \in 1..Len(LowerLetters) : LowerLetters[i] = c
    THEN UpperLetters[CHOOSE i \in 1..Len(LowerLetters) : LowerLetters[i] = c]
    ELSE c

UpperStr(s) == [i \in 1..Len(s) |-> UpperChar(s[i])]

\* s with every second character in upper case
AltCase(s) == [i \in 1..Len(s) |-> IF i % 2 = 0 THEN UpperChar(s[i]) ELSE s[i]]

\* all texts over the alphabet of length n, and of length at most n
RECURSIVE TextsOfLen(_, _)
TextsOfLen(alphabet, n) ==
    IF n = 0 THEN {<<>>}
    ELSE {Append(w, c) : w \in TextsOfLen(alphabet, n - 1), c \in alphabet}

TextsUpTo(alphabet, n) == UNION {TextsOfLen(alphabet, k) : k \in 0..n}

\* the run of main is not started in a function-level specification
PipelineIdle ==
    /\ pc = "idle"
    /\ response = NullV
    /\ post = <<>>
    /\ store = <<>>
    /\ store0 = <<>>
    /\ puzzle = NullV
    /\ saved = NullV
    /\ err = [kind |-> "none", at |-> "none"]

\* no function-level call is made in a run of main
CallIdle ==
    /\ fn = "main"
    /\ arg = <<>>
    /\ ret = Pending

(***************************************************************************)
(* _ensure_min_karma applied to every score and threshold of a range       *)
(***************************************************************************)
KarmaRange == 1002

MaxSmallThreshold == 2

KarmaScores == (0 - KarmaRange)..KarmaRange

KarmaThresholds == {DEFAULT_MIN_KARMA} \cup 0..MaxSmallThreshold

KarmaPosts == {MkPost([score |-> IntV(s)]) : s \in KarmaScores} \cup {<<>>}

InitKarma ==
    /\ PipelineIdle
    /\ fn = "_ensure_min_karma"
    /\ arg \in [post : KarmaPosts, min_karma : KarmaThresholds]
    /\ ret = Pending

CallEnsureMinKarma ==
    /\ fn = "_ensure_min_karma"
    /\ ret = Pending
    /\ ret' = _ensure_min_karma(arg.post, arg.min_karma)
    /\ UNCHANGED <<pipelineVars, fn, arg>>

SpecKarma == InitKarma /\ [][CallEnsureMinKarma]_vars

\* C2: for every integer score s and threshold m the gate raises
\* BELOW_THRESHOLD exactly when -m < s < m (|s| < m), carrying s and m, and
\* returns without error otherwise; at m = 1000 the scores -1000 and 1000
\* pass and 999 and -999 fail.
C2_ThresholdGate ==
    (fn = "_ensure_min_karma" /\ ret.state # "pending"
        /\ "score" \in DOMAIN arg.post) =>
        LET s == arg.post["score"].v
            m == arg.min_karma
        IN  /\ (ret.state = "raised") <=> (0 - m < s /\ s < m)
            /\ ret.state = "raised" =>
                  /\ ret.value.kind = "BELOW_THRESHOLD"
                  /\ ret.value.score = s
                  /\ ret.value.need = m
            /\ ret.state # "raised" => ret = Returned(NullV)
            /\ (m = 1000 /\ s \in {-1000, 1000}) => ret.state = "returned"
            /\ (m = 1000 /\ s \in {-999, 999}) => ret.state = "raised"

\* C2's case: a downvoted post exactly at the default threshold is accepted
C2_Witness ==
    /\ fn = "_ensure_min_karma"
    /\ ret.state = "returned"
    /\ "score" \in DOMAIN arg.post
    /\ arg.post["score"].v = -1000
    /\ arg.min_karma = DEFAULT_MIN_KARMA

(***************************************************************************)
(* _ensure_sfw applied to posts whose title or body runs over a set of     *)
(* texts: every keyword in three case mixes, cut short, and broken by a    *)
(* hyphen, between paddings; and every text over a small alphabet.         *)
(***************************************************************************)
MaxSfwLen == 4

SfwAlphabet == {"s", "e", "x", " ", "E"}

SfwPads == {<<>>, <<"a">>, <<"Z", " ">>}

\* a keyword, its case mixes, and two texts that only resemble it
SfwCores(kw) ==
    { kw, UpperStr(kw), AltCase(kw),
      SubSeq(kw, 1, Len(kw) - 1),
      SubSeq(kw, 1, 2) \o <<"-">> \o SubSeq(kw, 3, Len(kw)) }

SfwTexts ==
    TextsUpTo(SfwAlphabet, MaxSfwLen)
    \cup { pre \o core \o suf :
             pre \in SfwPads, suf \in SfwPads,
             core \in UNION {SfwCores(NSFW_TOKENS[k]) : k \in 1..Len(NSFW_TOKENS)} }

\* the field that is not varied: absent, empty, null or harmless
SfwOther == {Absent, StrV(<<>>), NullV, StrV(<<"o", "k">>)}

SfwPosts ==
    {MkPost([title |-> StrV(t), selftext |-> o]) : t \in SfwTexts, o \in SfwOther}
    \cup
    {MkPost([title |-> o, selftext |-> StrV(t)]) : t \in SfwTexts, o \in SfwOther}

InitSfw ==
    /\ PipelineIdle
    /\ fn = "_ensure_sfw"
    /\ arg \in [post : SfwPosts]
    /\ ret = Pending

CallEnsureSfw ==
    /\ fn = "_ensure_sfw"
    /\ ret = Pending
    /\ ret' = _ensure_sfw(arg.post)
    /\ UNCHANGED <<pipelineVars, fn, arg>>

SpecSfw == InitSfw /\ [][CallEnsureSfw]_vars

\* the text a post carries under a key; an absent or null field has none
C3_TextOf(p, key) ==
    IF key \in DOMAIN p /\ p[key].t = "str" THEN p[key].v ELSE <<>>

\* some keyword occurs in the lower-cased text
C3_HasKeyword(text) ==
    \E k \in 1..Len(NSFW_TOKENS) :
        \E i \in 0..Len(text) :
            /\ i + Len(NSFW_TOKENS[k]) <= Len(text)
            /\ \A j \in 1..Len(NSFW_TOKENS[k]) :
                  LowerChar(text[i + j]) = NSFW_TOKENS[k][j]

\* C3: _ensure_sfw rejects (UNSAFE_CONTENT) if and only if the lower-cased
\* title or the lower-cased selftext contains a keyword of the list as a
\* substring; otherwise it accepts, and empty or absent text is accepted.
C3_SafetyFilter ==
    (fn = "_ensure_sfw" /\ ret.state # "pending") =>
        LET title == C3_TextOf(arg.post, "title")
            body == C3_TextOf(arg.post, "selftext")
        IN  /\ (ret = Raised([kind |-> "UNSAFE_CONTENT"]))
                  <=> (C3_HasKeyword(title) \/ C3_HasKeyword(body))
            /\ ret.state # "raised" => ret = Returned(NullV)
            /\ (title = <<>> /\ body = <<>>) => ret.state = "returned"

\* C3's case: a post rejected for a keyword that its body spells in mixed
\* case, the title being clean
C3_Witness ==
    /\ fn = "_ensure_sfw"
    /\ ret.state = "raised"
    /\ ~C3_HasKeyword(C3_TextOf(arg.post, "title"))
    /\ C3_HasKeyword(C3_TextOf(arg.post, "selftext"))
    /\ ~IsNsfwCaseSensitive(C3_TextOf(arg.post, "selftext"))

(***************************************************************************)
(* _format_subscribers applied to subscriber counts: every count up to     *)
(* MaxPlainCount, every 50th up to MaxKSteps * 50 (all the counts halfway  *)
(* between two tenths of a thousand), a band around one million, and every *)
(* 50000th up to MaxMSteps * 50000.                                        *)
(***************************************************************************)
MaxPlainCount == 1200

MaxKSteps == 20100

MillionBand == 120

MaxMSteps == 2100

SubscriberCounts ==
    (0..MaxPlainCount)
    \cup {50 * k : k \in 0..MaxKSteps}
    \cup ((1000000 - MillionBand)..(1000000 + MillionBand))
    \cup {50000 * k : k \in 0..MaxMSteps}

InitSubs ==
    /\ PipelineIdle
    /\ fn = "_format_subscribers"
    /\ arg \in [count : SubscriberCounts]
    /\ ret = Pending

CallFormatSubscribers ==
    /\ fn = "_format_subscribers"
    /\ ret = Pending
    /\ ret' = Returned(_format_subscribers(arg.count))
    /\ UNCHANGED <<pipelineVars, fn, arg>>

SpecSubs == InitSubs /\ [][CallFormatSubscribers]_vars

\* t tenths written with one decimal place, a trailing ".0" removed
C8_Render(t) ==
    NatStr(t \div 10)
        \o (IF t % 10 = 0 THEN <<>> ELSE <<".", Digits[(t % 10) + 1]>>)

\* t / 10 is count / unit to one decimal place: no tenth is nearer
C8_OneDecimalPlace(count, unit, t) == 2 * Abs(10 * count - t * unit) <= unit

\* out is count / unit to one decimal place with the suffix
C8_Scaled(count, unit, suffix, out) ==
    \E t \in {(10 * count) \div unit, (10 * count) \div unit + 1} :
        /\ C8_OneDecimalPlace(count, unit, t)
        /\ out = C8_Render(t) \o <<suffix>>

\* C8: a count below 1000 is printed as its decimal text; from 1000 up to
\* 999999 as count / 1000 to one decimal place, a trailing ".0" removed,
\* with "K"; from 1000000 on as count / 1000000 the same way with "M".
\* 999 -> "999", 1000 -> "1K", 1500 -> "1.5K", 1500000 -> "1.5M",
\* 2000000 -> "2M", 10000 -> "10K", 100000000 -> "100M".
C8_SubscriberFormat ==
    (fn = "_format_subscribers" /\ ret.state = "returned") =>
        LET c == arg.count
            out == ret.value
        IN  /\ c < 1000 => out = NatStr(c)
            /\ (1000 <= c /\ c < 1000000) => C8_Scaled(c, 1000, "K", out)
            /\ c >= 1000000 => C8_Scaled(c, 1000000, "M", out)
            /\ c = 999 => out = <<"9", "9", "9">>
            /\ c = 1000 => out = <<"1", "K">>
            /\ c = 1500 => out = <<"1", ".", "5", "K">>
            /\ c = 1500000 => out = <<"1", ".", "5", "M">>
            /\ c = 2000000 => out = <<"2", "M">>
            /\ c = 10000 => out = <<"1", "0", "K">>
            /\ c = 100000000 => out = <<"1", "0", "0", "M">>

\* C8's case: a whole multiple of ten millions keeps its integer digits
C8_Witness ==
    /\ fn = "_format_subscribers"
    /\ arg.count = 100000000
    /\ ret = Returned(<<"1", "0", "0", "M">>)

(***************************************************************************)
(* format_clues_for_game applied to posts whose top_comment runs over the  *)
(* sentinels in several case mixes, texts that only resemble them, and     *)
(* texts of the lengths around COMMENT_LIMIT, each between paddings of     *)
(* whitespace; and to a post with no top_comment.                          *)
(***************************************************************************)
MaxPad == 2

CommentSlack == 3

LongCommentLen == 250

CommentLetters == <<"t", "h", "e", " ", "E", "n", "d">>

\* a comment of n characters that differ from place to place
Filler(n) == [i \in 1..n |-> CommentLetters[((i - 1) % Len(CommentLetters)) + 1]]

CommentCores ==
    UNION { {x, UpperStr(x), AltCase(x),
             SubSeq(x, 1, Len(x) - 1),
             SubSeq(x, 1, 1) \o <<" ">> \o SubSeq(x, 2, Len(x)),
             x \o <<"s">>} : x \in INVALID_COMMENTS \ {<<>>} }
    \cup {<<>>}
    \cup { Filler(n) :
             n \in {1, 2, LongCommentLen}
                   \cup ((COMMENT_LIMIT - CommentSlack)..(COMMENT_LIMIT + CommentSlack)) }

CommentPads ==
    UNION { {Rep(" ", n), Rep("\n", n), Rep("\t", n)} : n \in 0..MaxPad }
    \cup {Rep(" ", COMMENT_LIMIT + 1)}

CommentTexts ==
    {l \o core \o r : l \in CommentPads, r \in CommentPads, core \in CommentCores}

CommentPosts ==
    {MkPost([top_comment |-> StrV(c)]) : c \in CommentTexts} \cup {<<>>}

InitComment ==
    /\ PipelineIdle
    /\ fn = "format_clues_for_game"
    /\ arg \in [post : CommentPosts]
    /\ ret = Pending

CallFormatCluesForGame ==
    /\ fn = "format_clues_for_game"
    /\ ret = Pending
    /\ ret' = format_clues_for_game(arg.post)
    /\ UNCHANGED <<pipelineVars, fn, arg>>

SpecComment == InitComment /\ [][CallFormatCluesForGame]_vars

\* the comment of the post under format_clues_for_game ("" when absent)
CommentOf(p) == IF "top_comment" \in DOMAIN p THEN p["top_comment"].v ELSE <<>>

\* c is whitespace around an empty text, "[removed]" or "[deleted]" in any
\* case mix
C9_IsSentinel(c) ==
    \E n \in {0, 9} :
        \E i \in 0..Len(c) :
            /\ i + n <= Len(c)
            /\ \A k \in 1..i : c[k] \in Whitespace
            /\ \A k \in (i + n + 1)..Len(c) : c[k] \in Whitespace
            /\ LowerStr(SubSeq(c, i + 1, i + n))
                  \in { <<>>,
                        <<"[", "r", "e", "m", "o", "v", "e", "d", "]">>,
                        <<"[", "d", "e", "l", "e", "t", "e", "d", "]">> }

\* C9: the topComment clue is "No valid comments" exactly when the comment,
\* trimmed and lower-cased, is empty, "[removed]" or "[deleted]"; any other
\* comment is wrapped in double quotation marks, and is unchanged inside
\* them when it has at most 200 characters.
C9_TopCommentClue ==
    (fn = "format_clues_for_game" /\ ret.state = "returned") =>
        LET c == CommentOf(arg.post)
            clue == ret.value.topComment
        IN  /\ (clue = NoValidComments) <=> C9_IsSentinel(c)
            /\ ~C9_IsSentinel(c) =>
                  /\ Len(clue) >= 2
                  /\ clue[1] = "\""
                  /\ clue[Len(clue)] = "\""
            /\ (~C9_IsSentinel(c) /\ Len(c) <= 200) =>
                  clue = <<"\"">> \o c \o <<"\"">>

\* C9's case: a sentinel in mixed case between whitespace gives the clue
C9_Witness ==
    /\ fn = "format_clues_for_game"
    /\ ret.state = "returned"
    /\ ret.value.topComment = NoValidComments
    /\ LET c == CommentOf(arg.post)
       IN  /\ Len(c) > 9
           /\ c[1] \in Whitespace
           /\ c[Len(c)] \in Whitespace
           /\ \E k \in 1..Len(c) : LowerChar(c[k]) # c[k]

\* the clue is the first 197 characters of c and "...", in quotation marks
C10_FirstKeptThenEllipsis(c, clue) ==
    /\ Len(clue) >= COMMENT_KEEP + 5
    /\ clue[1] = "\""
    /\ \A i \in 1..COMMENT_KEEP : clue[i + 1] = c[i]
    /\ SubSeq(clue, COMMENT_KEEP + 2, COMMENT_KEEP + 4) = <<".", ".", ".">>
    /\ clue[COMMENT_KEEP + 5] = "\""

\* C10 as claimed: for a valid comment longer than 200 characters the clue
\* is its first 197 characters and "...", in quotation marks, and the
\* quoted content is 201 characters long.
C10_QuotedLength201 ==
    (fn = "format_clues_for_game" /\ ret.state = "returned"
        /\ ~C9_IsSentinel(CommentOf(arg.post))
        /\ Len(CommentOf(arg.post)) > 200) =>
        /\ C10_FirstKeptThenEllipsis(CommentOf(arg.post), ret.value.topComment)
        /\ Len(ret.value.topComment) - 2 = 201

\* C10 amended: for a valid comment longer than 200 characters the clue is
\* its first 197 characters and "...", in quotation marks, and the quoted
\* content is 200 characters long (202 with the quotation marks).
C10_QuotedLength200 ==
    (fn = "format_clues_for_game" /\ ret.state = "returned"
        /\ ~C9_IsSentinel(CommentOf(arg.post))
        /\ Len(CommentOf(arg.post)) > 200) =>
        /\ C10_FirstKeptThenEllipsis(CommentOf(arg.post), ret.value.topComment)
        /\ Len(ret.value.topComment) - 2 = 200

\* C10's case: the clue of a valid comment of 250 characters
C10_Witness ==
    /\ fn = "format_clues_for_game"
    /\ ret.state = "returned"
    /\ Len(CommentOf(arg.post)) = 250
    /\ ~C9_IsSentinel(CommentOf(arg.post))
    /\ Len(ret.value.topComment) = 202

(***************************************************************************)
(* _truncate_body applied to texts around max_length, and                  *)
(* format_puzzle_for_api applied to posts whose body is such a text.  A    *)
(* text is a run of letters with a letter, a space or a tab at each of the *)
(* places that decide the cut: around 70% of max_length and around         *)
(* max_length.  90 is a max_length whose product with the double 0.7 is    *)
(* below 63.                                                               *)
(***************************************************************************)
SmallMaxLength == 10

TruncSlack == 3

TruncMaxLengths == {MAX_BODY_LENGTH, 90, SmallMaxLength}

\* the 0-based places of a text that decide the cut
TruncMarks(m) ==
    {(7 * m) \div 10 - 1, (7 * m) \div 10, (7 * m) \div 10 + 1, m - 1, m}

TruncLengths(m) == {0, 1, m - 1, m} \cup ((m + 1)..(m + TruncSlack))

\* the text of n characters with marks[i] at each marked place i
MarkedText(n, marks) ==
    [i \in 1..n |-> IF (i - 1) \in DOMAIN marks THEN marks[i - 1] ELSE "a"]

TruncTexts(m) ==
    { MarkedText(n, marks) :
        n \in TruncLengths(m), marks \in [TruncMarks(m) -> {"a", " ", "\t"}] }

TruncArgs ==
    UNION { [text : TruncTexts(m), max_length : {m}] : m \in TruncMaxLengths }

BodyPosts ==
    UNION { { MkPost([selftext |-> StrV(b), redacted_selftext |-> Absent]),
              MkPost([selftext |-> StrV(<<"r", "a", "w">>),
                      redacted_selftext |-> StrV(b)]) } :
            b \in TruncTexts(MAX_BODY_LENGTH) }

InitTrunc ==
    /\ PipelineIdle
    /\ ret = Pending
    /\ \/ fn = "_truncate_body" /\ arg \in TruncArgs
       \/ fn = "format_puzzle_for_api"
            /\ arg \in [post : BodyPosts, date : {NullV}]

CallTruncateBody ==
    /\ fn = "_truncate_body"
    /\ ret = Pending
    /\ ret' = _truncate_body(StrV(arg.text), arg.max_length)
    /\ UNCHANGED <<pipelineVars, fn, arg>>

CallFormatPuzzleForApi ==
    /\ fn = "format_puzzle_for_api"
    /\ ret = Pending
    /\ ret' = format_puzzle_for_api(arg.post, arg.date)
    /\ UNCHANGED <<pipelineVars, fn, arg>>

NextTrunc == CallTruncateBody \/ CallFormatPuzzleForApi

SpecTrunc == InitTrunc /\ [][NextTrunc]_vars

\* C4: the postBody of every assembled Puzzle, ellipsis included, has at
\* most 500 characters, whether the body was kept or truncated.
C4_PostBodyBounded ==
    (fn = "format_puzzle_for_api" /\ ret.state = "returned"
        /\ ret.value.postBody.t = "str") =>
        Len(ret.value.postBody.v) <= 500

\* the 0-based places of the spaces of the window text[:m] that lie beyond
\* 70% of m
C7_LateSpaces(text, m) ==
    {i \in 0..(m - 1) : text[i + 1] = " " /\ 10 * i > 7 * m}

\* s without the whitespace at its end
C7_Stripped(s) ==
    LET keep == {n \in 0..Len(s) :
                    /\ \A k \in (n + 1)..Len(s) : s[k] \in Whitespace
                    /\ n > 0 => s[n] \notin Whitespace}
    IN  SubSeq(s, 1, CHOOSE n \in keep : TRUE)

MaxOldLines == 1

\* a line written to reddit_posts.jsonl by an earlier run
OldLine ==
    MkPost([title |-> StrV(<<"o", "l", "d">>), score |-> IntV(1234)])

StoreBefore == {[i \in 1..n |-> OldLine] : n \in 0..MaxOldLines}

PipelinePosts ==
    { MkPost([title |-> title,
              selftext |-> selftext,
              redacted_selftext |-> redacted,
              subreddit |-> StrV(<<"c", "a", "t", "s">>),
              score |-> score,
              top_comment |-> top_comment,
              subreddit_subscribers |-> subscribers,
              subreddit_created_year |-> IntV(2012),
              created_utc |-> created,
              selection_reason |-> reason,
              full_prompt |-> reason]) :
        title \in {Absent, StrV(<<"C", "a", "t", "s">>), StrV(<<"N", "s", "F", "w">>)},
        selftext \in {StrV(<<"o", "k">>), StrV(<<"G", "o", "r", "e">>)},
        redacted \in {Absent, StrV(<<"[", "R", "E", "D", "A", "C", "T", "E", "D", "]">>)},
        score \in {Absent, NullV, IntV(999), IntV(-1000), IntV(5000)},
        top_comment \in {Absent, NullV, StrV(<<"n", "i", "c", "e">>),
                         StrV(<<"[", "r", "e", "m", "o", "v", "e", "d", "]">>)},
        subscribers \in {Absent, IntV(19200000)},
        created \in {Absent, IntV(1700000000)},
        reason \in {Absent, StrV(<<"f", "u", "n">>)} }

\* response texts that carry no JSON object that parses
BrokenTexts ==
    { <<>>,
      <<"S", "o", "r", "r", "y">>,
      <<"}", " ", "{">>,
      <<"{", "o", "o", "p", "s", "}">>,
      <<"{", "members", "}", " ", "{", "}">> }

\* response texts from which the object is extracted
ObjectTexts ==
    { <<"{", "members", "}">>,
      <<":", " ", "{", "members", "}", ".", "\n">> }

Responses ==
    [text : BrokenTexts, members : {<<>>}]
    \cup [text : ObjectTexts, members : PipelinePosts]

\* json.loads(slice)
JsonLoads(slice, members) ==
    IF slice = <<"{", "members", "}">> THEN Returned(members)
    ELSE Raised([kind |-> "MALFORMED_RESPONSE"])

\* _extract_json(text)
_extract_json(r) ==
    LET start == FindFrom(r.text, <<"{">>, 0)
        end == RFind(r.text, "}")
    IN  IF start = -1 \/ end <= start
        THEN Raised([kind |-> "MALFORMED_RESPONSE"])
        ELSE JsonLoads(SubSeq(r.text, start + 1, end + 1), r.members)

NoError == [kind |-> "none", at |-> "none"]

Init ==
    /\ CallIdle
    /\ pc = "start"
    /\ response = NullV
    /\ post = <<>>
    /\ store0 \in StoreBefore
    /\ store = store0
    /\ puzzle = NullV
    /\ saved = NullV
    /\ err = NoError

\* the run ends with the exception e raised at the stage named
Fail(e, at) ==
    /\ pc' = "failed"
    /\ err' = [kind |-> e.kind, at |-> at]

\* client.responses.create(...) and _response_text(response)
Fetch ==
    /\ pc = "start"
    /\ \E r \in Responses : response' = r
    /\ pc' = "extract"
    /\ UNCHANGED <<post, store, store0, puzzle, saved, err, callVars>>

\* if not text: raise ...; cleaned = _clean_post(_extract_json(text))
ExtractAndClean ==
    /\ pc = "extract"
    /\ LET obj == IF Len(response.text) = 0
                  THEN Raised([kind |-> "MALFORMED_RESPONSE"])
                  ELSE _extract_json(response)
       IN  IF obj.state = "raised"
           THEN Fail(obj.value, "extract") /\ UNCHANGED post
           ELSE post' = _clean_post(obj.value) /\ pc' = "sfw" /\ UNCHANGED err
    /\ UNCHANGED <<response, store, store0, puzzle, saved, callVars>>

\* _ensure_sfw(cleaned)
CheckSfw ==
    /\ pc = "sfw"
    /\ LET r == _ensure_sfw(post)
       IN  IF r.state = "raised"
           THEN Fail(r.value, "sfw")
           ELSE pc' = "karma" /\ UNCHANGED err
    /\ UNCHANGED <<response, post, store, store0, puzzle, saved, callVars>>

\* _ensure_min_karma(cleaned); return cleaned
CheckKarma ==
    /\ pc = "karma"
    /\ LET r == _ensure_min_karma(post, DEFAULT_MIN_KARMA)
       IN  IF r.state = "raised"
           THEN Fail(r.value, "karma")
           ELSE pc' = "append" /\ UNCHANGED err
    /\ UNCHANGED <<response, post, store, store0, puzzle, saved, callVars>>

\* _append_post(post)
AppendPost ==
    /\ pc = "append"
    /\ store' = Append(store, post)
    /\ pc' = "assemble"
    /\ UNCHANGED <<response, post, store0, puzzle, saved, err, callVars>>

\* puzzle = format_puzzle_for_api(post)
Assemble ==
    /\ pc = "assemble"
    /\ LET r == format_puzzle_for_api(post, NullV)
       IN  IF r.state = "raised"
           THEN Fail(r.value, "assemble") /\ UNCHANGED puzzle
           ELSE puzzle' = r.value /\ pc' = "save" /\ UNCHANGED err
    /\ UNCHANGED <<response, post, store, store0, saved, callVars>>

\* save_puzzle_json(puzzle)
SavePuzzle ==
    /\ pc = "save"
    /\ saved' = puzzle
    /\ pc' = "done"
    /\ UNCHANGED <<response, post, store, store0, puzzle, err, callVars>>

ApiDates == {NullV, StrV(<<"2", "0", "2", "5", "-", "1", "2", "-", "3", "1">>)}

\* a caller of the module applies format_puzzle_for_api to a post of its own
CallAssembler ==
    /\ pc = "start"
    /\ \E p \in PipelinePosts, d \in ApiDates :
          LET r == format_puzzle_for_api(p, d)
          IN  /\ post' = p
              /\ IF r.state = "raised"
                 THEN /\ pc' = "api_failed"
                      /\ err' = [kind |-> r.value.kind, at |-> "assemble"]
                      /\ UNCHANGED puzzle
                 ELSE puzzle' = r.value /\ pc' = "api_done" /\ UNCHANGED err
    /\ UNCHANGED <<response, store, store0, saved, callVars>>

Next ==
    \/ Fetch
    \/ ExtractAndClean
    \/ CheckSfw
    \/ CheckKarma
    \/ AppendPost
    \/ Assemble
    \/ SavePuzzle
    \/ CallAssembler

Spec == Init /\ [][Next]_vars

\* the post passes the Content Safety Filter and the Threshold Gate
PassesBothChecks(p) ==
    /\ ~C3_HasKeyword(C3_TextOf(p, "title"))
    /\ ~C3_HasKeyword(C3_TextOf(p, "selftext"))
    /\ "score" \in DOMAIN p
    /\ p["score"].t = "int"
    /\ (p["score"].v >= 1000 \/ p["score"].v <= -1000)

\* C1: a Puzzle is assembled only from a post that has passed both checks,
\* through main and through format_puzzle_for_api alike.
C1_PuzzleOnlyFromValidated ==
    pc \in {"save", "done", "api_done"} => PassesBothChecks(post)

\* C5: no run ends in failure after the post was appended to the store or
\* assembly has begun.
C5_NoPartialSuccess ==
    pc = "failed" => (store = store0 /\ err.at # "assemble")

\* C6: the store is appended to at most once in a run, only after both
\* checks have passed, never on a run whose extraction or validation
\* failed; the appended record has none of the transient keys and every
\* other key of the extracted post unchanged.
C6_AppendOnceAfterValidation ==
    /\ Len(store) <= Len(store0) + 1
    /\ SubSeq(store, 1, Len(store0)) = store0
    /\ (pc = "failed" /\ err.at \in {"extract", "sfw", "karma"}) =>
          store = store0
    /\ Len(store) > Len(store0) =>
          LET record == store[Len(store)]
              extracted == response.members
          IN  /\ pc \in {"assemble", "save", "done", "failed"}
              /\ PassesBothChecks(record)
              /\ DOMAIN record \cap REMOVE_KEYS = {}
              /\ DOMAIN record = DOMAIN extracted \ REMOVE_KEYS
              /\ \A k \in DOMAIN record : record[k] = extracted[k]

\* C6's case: a finished run has appended the one record of a post that
\* came with all three transient keys
C6_Witness ==
    /\ pc = "done"
    /\ Len(store) = Len(store0) + 1
    /\ REMOVE_KEYS \subseteq DOMAIN response.members

==========================================================================
